---- MODULE Spec2Model ----
(***************************************************************************)
(* Model of src/task_simplifier.py: the configuration validator            *)
(* (TaskSimplifier._validate_config), the single-provider path             *)
(* (simplify_task_async / simplify_task) and the multi-provider fan-out    *)
(* (simplify_task_multiple_providers).                                     *)
(*                                                                         *)
(* Text is a sequence of one-character strings, so that strip, startswith, *)
(* "in" and len are computed and not assumed.  A configuration value is a  *)
(* record [ty, n, s]: ty is the Python type of the JSON value, n its       *)
(* number (floats in tenths), s its text.                                  *)
(***************************************************************************)
EXTENDS Integers, Sequences, FiniteSets, TLC

(***************************************************************************)
(* Text helpers (Python str methods used by the source).                   *)
(***************************************************************************)
Whitespace == {" ", "\t", "\n"}

Rep(c, k) == [i \in 1..k |-> c]

StartsWith(s, prefix) ==
    /\ Len(s) >= Len(prefix)
    /\ SubSeq(s, 1, Len(prefix)) = prefix

Contains(s, sub) ==
    \E i \in 1..(Len(s) + 1) :
        /\ i + Len(sub) - 1 <= Len(s)
        /\ SubSeq(s, i, i + Len(sub) - 1) = sub

Strip(s) ==
    LET keep == {i \in 1..Len(s) : s[i] \notin Whitespace}
    IN  IF keep = {} THEN <<>>
        ELSE LET lo == CHOOSE i \in keep : \A j \in keep : i <= j
                 hi == CHOOSE i \in keep : \A j \in keep : i >= j
             IN  SubSeq(s, lo, hi)

DigitChars == <<"0", "1", "2", "3", "4", "5", "6", "7", "8", "9">>

IsDigit(c) == \E d \in 1..10 : DigitChars[d] = c

DigitVal(c) == (CHOOSE d \in 1..10 : DigitChars[d] = c) - 1

AllDigits(s) == Len(s) >= 1 /\ \A i \in 1..Len(s) : IsDigit(s[i])

RECURSIVE DigitsToNat(_)
DigitsToNat(s) ==
    IF s = <<>> THEN 0
    ELSE 10 * DigitsToNat(SubSeq(s, 1, Len(s) - 1)) + DigitVal(s[Len(s)])

RECURSIVE NatToStr(_)
NatToStr(k) ==
    IF k < 10 THEN <<DigitChars[k + 1]>>
    ELSE NatToStr(k \div 10) \o <<DigitChars[(k % 10) + 1]>>

IntToStr(k) == IF k < 0 THEN <<"-">> \o NatToStr(0 - k) ELSE NatToStr(k)

\* One-decimal rendering of a float held in tenths (str(1.9) = "1.9").
TenthsToStr(t) ==
    LET a == IF t < 0 THEN 0 - t ELSE t
    IN  (IF t < 0 THEN <<"-">> ELSE <<>>)
            \o NatToStr(a \div 10) \o <<".">> \o NatToStr(a % 10)

SK_PREFIX == <<"s", "k", "-">>
HTTP_SCHEME == <<"h", "t", "t", "p", ":", "/", "/">>
HTTPS_SCHEME == <<"h", "t", "t", "p", "s", ":", "/", "/">>
FTP_SCHEME == <<"f", "t", "p", ":", "/", "/">>
DEEPSEEK_HOST == <<"a", "p", "i", ".", "d", "e", "e", "p", "s", "e", "e", "k", ".", "c", "o", "m">>
OPENAI_HOST == <<"a", "p", "i", ".", "o", "p", "e", "n", "a", "i", ".", "c", "o", "m">>
DOUBAO_HOST == <<"v", "o", "l", "c", "e", "n", "g", "i", "n", "e", ".", "c", "o", "m">>
OTHER_HOST == <<"e", "x", "a", "m", "p", "l", "e", ".", "o", "r", "g">>
DEEPSEEK_CHAT == <<"d", "e", "e", "p", "s", "e", "e", "k", "-", "c", "h", "a", "t">>
DEEPSEEK_CODER == <<"d", "e", "e", "p", "s", "e", "e", "k", "-", "c", "o", "d", "e", "r">>
DEEPSEEK_PREFIX == <<"d", "e", "e", "p", "s", "e", "e", "k", "-">>
GPT35 == <<"g", "p", "t", "-", "3", ".", "5", "-", "t", "u", "r", "b", "o">>
GPT4 == <<"g", "p", "t", "-", "4">>
GPT4_TURBO == <<"g", "p", "t", "-", "4", "-", "t", "u", "r", "b", "o">>
GPT4O == <<"g", "p", "t", "-", "4", "o">>
EP_PREFIX == <<"e", "p", "-">>
DOUBAO_PREFIX == <<"d", "o", "u", "b", "a", "o", "-">>
QWEN_PLUS == <<"q", "w", "e", "n", "-", "p", "l", "u", "s">>
NONE_TEXT == <<"N", "o", "n", "e">>
NAN_TEXT == <<"n", "a", "n">>
INF_TEXT == <<"i", "n", "f">>

(***************************************************************************)
(* class AIProvider(Enum)                                                  *)
(***************************************************************************)
AIProvider ==
    {"deepseek", "doubao", "yuanbao", "openai", "gemini",
     "claude", "glm", "wenxin", "tongyi"}

(***************************************************************************)
(* Configuration values as json.load delivers them.                        *)
(***************************************************************************)
Absent == [ty |-> "absent", n |-> 0, s |-> <<>>]
NoneV == [ty |-> "none", n |-> 0, s |-> <<>>]
NaN == [ty |-> "nan", n |-> 0, s |-> <<>>]
Inf == [ty |-> "inf", n |-> 0, s |-> <<>>]
Str(s) == [ty |-> "str", n |-> 0, s |-> s]
IntV(k) == [ty |-> "int", n |-> k, s |-> <<>>]
FloatV(tenths) == [ty |-> "float", n |-> tenths, s |-> <<>>]

\* A config dict with its numeric fields but timeout left out.
Config(api_key, base_url, model, timeout) ==
    [isdict |-> TRUE, api_key |-> api_key, base_url |-> base_url, model |-> model,
     timeout |-> timeout, max_tokens |-> Absent, temperature |-> Absent]

\* dict.get(key, default): the default only when the key is absent; an
\* explicit null is returned as None.
Get(config, key, default) ==
    IF config[key].ty = "absent" THEN default ELSE config[key]

\* str(value) as the f-strings of the error messages render it.
PyStr(v) ==
    CASE v.ty = "str" -> v.s
      [] v.ty = "int" -> IntToStr(v.n)
      [] v.ty = "float" -> TenthsToStr(v.n)
      [] v.ty = "none" -> NONE_TEXT
      [] v.ty = "nan" -> NAN_TEXT
      [] v.ty = "inf" -> INF_TEXT
      [] OTHER -> <<>>

Converted(k) == [ok |-> TRUE, kind |-> "num", n |-> k, exc |-> ""]
ConvError(e) == [ok |-> FALSE, kind |-> "", n |-> 0, exc |-> e]

\* int(value): ints unchanged, floats truncated toward zero, text stripped
\* and read as an optionally signed run of digits, None a TypeError, nan a
\* ValueError and infinity an OverflowError.
PyInt(v) ==
    CASE v.ty = "int" -> Converted(v.n)
      [] v.ty = "float" ->
            Converted(IF v.n < 0 THEN 0 - ((0 - v.n) \div 10) ELSE v.n \div 10)
      [] v.ty = "str" ->
            LET t == Strip(v.s)
                neg == t # <<>> /\ t[1] = "-"
                body == IF t # <<>> /\ t[1] \in {"-", "+"} THEN Tail(t) ELSE t
            IN  IF AllDigits(body)
                THEN Converted(IF neg THEN 0 - DigitsToNat(body)
                                      ELSE DigitsToNat(body))
                ELSE ConvError("ValueError")
      [] v.ty = "nan" -> ConvError("ValueError")
      [] v.ty = "inf" -> ConvError("OverflowError")
      [] OTHER -> ConvError("TypeError")

\* float(value), in tenths.  Text is read as digits with at most one
\* fractional digit, or as the words nan and inf.
PyFloat(v) ==
    CASE v.ty = "int" -> Converted(10 * v.n)
      [] v.ty = "float" -> Converted(v.n)
      [] v.ty = "nan" -> [ok |-> TRUE, kind |-> "nan", n |-> 0, exc |-> ""]
      [] v.ty = "inf" -> [ok |-> TRUE, kind |-> "inf", n |-> 0, exc |-> ""]
      [] v.ty = "str" ->
            LET t == Strip(v.s)
                neg == t # <<>> /\ t[1] = "-"
                body == IF t # <<>> /\ t[1] \in {"-", "+"} THEN Tail(t) ELSE t
                dots == {i \in 1..Len(body) : body[i] = "."}
                sgn(k) == IF neg THEN 0 - k ELSE k
            IN  IF body = NAN_TEXT
                THEN [ok |-> TRUE, kind |-> "nan", n |-> 0, exc |-> ""]
                ELSE IF body = INF_TEXT
                THEN [ok |-> TRUE, kind |-> "inf", n |-> 0, exc |-> ""]
                ELSE IF AllDigits(body)
                THEN Converted(sgn(10 * DigitsToNat(body)))
                ELSE IF /\ Cardinality(dots) = 1
                        /\ Len(body) >= 3
                        /\ body[Len(body) - 1] = "."
                        /\ AllDigits(SubSeq(body, 1, Len(body) - 2))
                        /\ IsDigit(body[Len(body)])
                THEN Converted(sgn(10 * DigitsToNat(SubSeq(body, 1, Len(body) - 2))
                                    + DigitVal(body[Len(body)])))
                ELSE ConvError("ValueError")
      [] OTHER -> ConvError("TypeError")

\* x < lo or x > hi on floats, in tenths: every comparison with nan is
\* False, infinity is above every bound.
FloatOutside(f, lo, hi) ==
    CASE f.kind = "nan" -> FALSE
      [] f.kind = "inf" -> TRUE
      [] OTHER -> f.n < lo \/ f.n > hi

(***************************************************************************)
(* Program constants of _validate_config.                                  *)
(***************************************************************************)
SK_KEY_MIN_LEN == 20
DOUBAO_KEY_MIN_LEN == 16
TIMEOUT_MIN == 1
TIMEOUT_MAX == 300
MAX_TOKENS_MIN == 1
MAX_TOKENS_MAX == 8000
TEMPERATURE_MIN == 0
TEMPERATURE_MAX == 2
DEFAULT_TIMEOUT == 30
DEFAULT_MAX_TOKENS == 200
DEFAULT_TEMPERATURE_TENTHS == 1

(***************************************************************************)
(* Messages and results.  A message is [id, p, arg]: which f-string, the   *)
(* provider.value it interpolates, and the rendered value it quotes.  A    *)
(* dict result carries the set of keys it has.                             *)
(***************************************************************************)
Msg(id, p, arg) == [id |-> id, p |-> p, arg |-> arg]
NoMsg == Msg("", "", <<>>)

ValidResult ==
    [valid |-> TRUE, keys |-> {"valid"}, error |-> NoMsg, field |-> ""]

Invalid(msg, field) ==
    [valid |-> FALSE, keys |-> {"valid", "error", "field"},
     error |-> msg, field |-> field]

\* What a block of the function does: fall through, return a dict, or raise.
Pass == [kind |-> "pass", result |-> ValidResult, exc |-> <<>>]
Return(r) == [kind |-> "return", result |-> r, exc |-> <<>>]
Raise(text) == [kind |-> "raise", result |-> ValidResult, exc |-> <<text>>]

AttributeErrorText(v, attr) ==
    (IF v.ty = "none" THEN "'NoneType'" ELSE "'" \o v.ty \o "'")
        \o " object has no attribute '" \o attr \o "'"

\* config.get(key, "").strip(): the text, or the AttributeError of a value
\* that is no str (and of a config that is no dict).
StrippedField(config, key) ==
    IF ~config.isdict
    THEN Raise("'list' object has no attribute 'get'")
    ELSE LET v == Get(config, key, Str(<<>>))
         IN  IF v.ty # "str"
             THEN Raise(AttributeErrorText(v, "strip"))
             ELSE [kind |-> "pass", result |-> ValidResult, exc |-> Strip(v.s)]

TextOf(stripped) == stripped.exc


\* Variant: the api_key is tested without .strip().
CheckApiKeyNoStrip(provider, config) ==
    IF ~config.isdict THEN Raise("'list' object has no attribute 'get'")
    ELSE LET v == Get(config, "api_key", Str(<<>>))
         IN  IF v.ty # "str" THEN Raise(AttributeErrorText(v, "strip"))
             ELSE IF v.s = <<>>
             THEN Return(Invalid(Msg("api_key_empty", provider, <<>>), "api_key"))
             ELSE Pass

\* (1) api_key non-empty after trimming.
CheckApiKey(provider, config) ==
    LET f == StrippedField(config, "api_key")
    IN  IF f.kind = "raise" THEN f
        ELSE IF TextOf(f) = <<>>
        THEN Return(Invalid(Msg("api_key_empty", provider, <<>>), "api_key"))
        ELSE Pass


\* Variant: the DeepSeek length test is off by one (<= for <) .
CheckKeyFormatOffByOne(provider, config) ==
    LET f == StrippedField(config, "api_key")
        api_key == TextOf(f)
    IN  IF f.kind = "raise" THEN f
        ELSE IF provider \in {"deepseek", "openai"}
        THEN IF ~StartsWith(api_key, SK_PREFIX)
             THEN Return(Invalid(Msg(provider \o "_key_format", "", <<>>), "api_key"))
             ELSE IF Len(api_key) <= SK_KEY_MIN_LEN
             THEN Return(Invalid(Msg(provider \o "_key_short", "", <<>>), "api_key"))
             ELSE Pass
        ELSE IF provider = "doubao"
        THEN IF Len(api_key) < DOUBAO_KEY_MIN_LEN
             THEN Return(Invalid(Msg("doubao_key_short", "", <<>>), "api_key"))
             ELSE Pass
        ELSE Pass

\* (2) provider key-format rule.
CheckKeyFormat(provider, config) ==
    LET f == StrippedField(config, "api_key")
        api_key == TextOf(f)
    IN  IF f.kind = "raise" THEN f
        ELSE IF provider = "deepseek"
        THEN IF ~StartsWith(api_key, SK_PREFIX)
             THEN Return(Invalid(Msg("deepseek_key_format", "", <<>>), "api_key"))
             ELSE IF Len(api_key) < SK_KEY_MIN_LEN
             THEN Return(Invalid(Msg("deepseek_key_short", "", <<>>), "api_key"))
             ELSE Pass
        ELSE IF provider = "openai"
        THEN IF ~StartsWith(api_key, SK_PREFIX)
             THEN Return(Invalid(Msg("openai_key_format", "", <<>>), "api_key"))
             ELSE IF Len(api_key) < SK_KEY_MIN_LEN
             THEN Return(Invalid(Msg("openai_key_short", "", <<>>), "api_key"))
             ELSE Pass
        ELSE IF provider = "doubao"
        THEN IF Len(api_key) < DOUBAO_KEY_MIN_LEN
             THEN Return(Invalid(Msg("doubao_key_short", "", <<>>), "api_key"))
             ELSE Pass
        ELSE Pass

\* (3) base_url non-empty and starting with http:// or https://.
CheckBaseUrl(provider, config) ==
    LET f == StrippedField(config, "base_url")
        base_url == TextOf(f)
    IN  IF f.kind = "raise" THEN f
        ELSE IF base_url = <<>>
        THEN Return(Invalid(Msg("base_url_empty", provider, <<>>), "base_url"))
        ELSE IF ~(StartsWith(base_url, HTTP_SCHEME) \/ StartsWith(base_url, HTTPS_SCHEME))
        THEN Return(Invalid(Msg("base_url_scheme", "", base_url), "base_url"))
        ELSE Pass

\* (4) provider URL-substring rule.
CheckUrlRule(provider, config) ==
    LET f == StrippedField(config, "base_url")
        base_url == TextOf(f)
    IN  IF f.kind = "raise" THEN f
        ELSE IF provider = "deepseek"
        THEN IF ~Contains(base_url, DEEPSEEK_HOST)
             THEN Return(Invalid(Msg("deepseek_url", "", base_url), "base_url"))
             ELSE Pass
        ELSE IF provider = "openai"
        THEN IF ~Contains(base_url, OPENAI_HOST)
             THEN Return(Invalid(Msg("openai_url", "", base_url), "base_url"))
             ELSE Pass
        ELSE IF provider = "doubao"
        THEN IF ~Contains(base_url, DOUBAO_HOST)
             THEN Return(Invalid(Msg("doubao_url", "", base_url), "base_url"))
             ELSE Pass
        ELSE Pass

\* (5) model non-empty, and the provider naming rule.
CheckModel(provider, config) ==
    LET f == StrippedField(config, "model")
        model == TextOf(f)
    IN  IF f.kind = "raise" THEN f
        ELSE IF model = <<>>
        THEN Return(Invalid(Msg("model_empty", provider, <<>>), "model"))
        ELSE IF provider = "deepseek"
        THEN IF model \notin {DEEPSEEK_CHAT, DEEPSEEK_CODER}
                    /\ ~StartsWith(model, DEEPSEEK_PREFIX)
             THEN Return(Invalid(Msg("deepseek_model", "", model), "model"))
             ELSE Pass
        ELSE IF provider = "openai"
        THEN IF ~(\E vm \in {GPT35, GPT4, GPT4_TURBO, GPT4O} : StartsWith(model, vm))
             THEN Return(Invalid(Msg("openai_model", "", model), "model"))
             ELSE Pass
        ELSE IF provider = "doubao"
        THEN IF ~(StartsWith(model, EP_PREFIX) \/ StartsWith(model, DOUBAO_PREFIX))
             THEN Return(Invalid(Msg("doubao_model", "", model), "model"))
             ELSE Pass
        ELSE Pass

\* The except (ValueError, TypeError) of the numeric blocks: any other
\* exception of the conversion leaves the block.
NumericFormatError(conv, msgid, raw, field) ==
    IF conv.exc \in {"ValueError", "TypeError"}
    THEN Return(Invalid(Msg(msgid, "", PyStr(raw)), field))
    ELSE Raise("cannot convert float infinity to integer")


\* Variant: the lower bound of the timeout is not tested.
CheckTimeoutNoLowerBound(provider, config) ==
    IF ~config.isdict THEN Raise("'list' object has no attribute 'get'")
    ELSE LET raw == Get(config, "timeout", IntV(DEFAULT_TIMEOUT))
             timeout == PyInt(raw)
         IN  IF ~timeout.ok
             THEN NumericFormatError(timeout, "timeout_format", raw, "timeout")
             ELSE IF timeout.n > TIMEOUT_MAX
             THEN Return(Invalid(Msg("timeout_range", "", IntToStr(timeout.n)), "timeout"))
             ELSE Pass

\* (6) timeout.
CheckTimeout(provider, config) ==
    IF ~config.isdict THEN Raise("'list' object has no attribute 'get'")
    ELSE LET raw == Get(config, "timeout", IntV(DEFAULT_TIMEOUT))
             timeout == PyInt(raw)
         IN  IF ~timeout.ok
             THEN NumericFormatError(timeout, "timeout_format", raw, "timeout")
             ELSE IF timeout.n < TIMEOUT_MIN \/ timeout.n > TIMEOUT_MAX
             THEN Return(Invalid(Msg("timeout_range", "", IntToStr(timeout.n)), "timeout"))
             ELSE Pass

\* (7) max_tokens.
CheckMaxTokens(provider, config) ==
    IF ~config.isdict THEN Raise("'list' object has no attribute 'get'")
    ELSE LET raw == Get(config, "max_tokens", IntV(DEFAULT_MAX_TOKENS))
             max_tokens == PyInt(raw)
         IN  IF ~max_tokens.ok
             THEN NumericFormatError(max_tokens, "max_tokens_format", raw, "max_tokens")
             ELSE IF max_tokens.n < MAX_TOKENS_MIN \/ max_tokens.n > MAX_TOKENS_MAX
             THEN Return(Invalid(Msg("max_tokens_range", "", IntToStr(max_tokens.n)),
                                 "max_tokens"))
             ELSE Pass

\* (8) temperature.  nan compares False on both sides and falls through.
CheckTemperature(provider, config) ==
    IF ~config.isdict THEN Raise("'list' object has no attribute 'get'")
    ELSE LET raw == Get(config, "temperature", FloatV(DEFAULT_TEMPERATURE_TENTHS))
             temperature == PyFloat(raw)
         IN  IF ~temperature.ok
             THEN NumericFormatError(temperature, "temperature_format", raw, "temperature")
             ELSE IF FloatOutside(temperature, 10 * TEMPERATURE_MIN, 10 * TEMPERATURE_MAX)
             THEN Return(Invalid(Msg("temperature_range", "",
                                     IF temperature.kind = "num"
                                     THEN TenthsToStr(temperature.n)
                                     ELSE INF_TEXT), "temperature"))
             ELSE Pass


\* Variant: the base_url blocks moved in front of the key-format block.
ValidationBlocksUrlFirst(provider, config) ==
    << CheckApiKey(provider, config), CheckBaseUrl(provider, config),
       CheckUrlRule(provider, config), CheckKeyFormat(provider, config),
       CheckModel(provider, config), CheckTimeout(provider, config),
       CheckMaxTokens(provider, config), CheckTemperature(provider, config) >>

\* The blocks of the try body in the order of the source text.
ValidationBlocks(provider, config) ==
    << CheckApiKey(provider, config), CheckKeyFormat(provider, config),
       CheckBaseUrl(provider, config), CheckUrlRule(provider, config),
       CheckModel(provider, config), CheckTimeout(provider, config),
       CheckMaxTokens(provider, config), CheckTemperature(provider, config) >>

\* Straight-line execution: the first block that does not fall through
\* decides; after the last one, return {"valid": True}.
RunBlocks(blocks) ==
    LET hit == {i \in 1..Len(blocks) : blocks[i].kind # "pass"}
    IN  IF hit = {} THEN Return(ValidResult)
        ELSE blocks[CHOOSE i \in hit : \A j \in hit : i <= j]

ValidateBody(provider, config) == RunBlocks(ValidationBlocks(provider, config))


\* Variant: no except clause around the body.
_validate_config_uncaught(provider, config) == ValidateBody(provider, config)

\* try: ... except Exception as e: field "unknown".
_validate_config(provider, config) ==
    LET body == ValidateBody(provider, config)
    IN  IF body.kind = "raise"
        THEN Return(Invalid(Msg("validate_exception", "", body.exc), "unknown"))
        ELSE body

(***************************************************************************)
(* CallResult dicts.  keys is the set of keys the dict has; a field whose  *)
(* key is absent holds its empty value.  all_results is the list attached  *)
(* by the fan-out.                                                         *)
(***************************************************************************)
\* Variant: a failure carries no fallback text.
FailureWithoutFallback(provider, error, task) ==
    [keys |-> {"success", "provider", "error", "simplified_task"},
     success |-> FALSE, provider |-> provider, error |-> error, field |-> "",
     simplified_task |-> <<>>, all_results |-> <<>>]

Failure(provider, error, task) ==
    [keys |-> {"success", "provider", "error", "simplified_task"},
     success |-> FALSE, provider |-> provider, error |-> error, field |-> "",
     simplified_task |-> task, all_results |-> <<>>]

FailureWithField(provider, error, field, task) ==
    [keys |-> {"success", "provider", "error", "field", "simplified_task"},
     success |-> FALSE, provider |-> provider, error |-> error, field |-> field,
     simplified_task |-> task, all_results |-> <<>>]

Success(provider, simplified) ==
    [keys |-> {"success", "provider", "simplified_task", "usage"},
     success |-> TRUE, provider |-> provider, error |-> NoMsg, field |-> "",
     simplified_task |-> simplified, all_results |-> <<>>]

(***************************************************************************)
(* Provider adapters.  What the vendor does is the response: 200 with the  *)
(* generated text, 200 without the text field, another status, or no       *)
(* answer within the timeout.  Each adapter turns it into a CallResult.    *)
(***************************************************************************)
StubProviders == {"gemini", "claude", "glm"}
HttpChatProviders == {"deepseek", "doubao", "openai"}
SdkProviders == {"yuanbao", "tongyi"}

OkResponse(content) == [kind |-> "ok", content |-> content]
NoTextResponse == [kind |-> "no_text", content |-> <<>>]
HttpErrorResponse == [kind |-> "http_error", content |-> <<>>]
TimeoutResponse == [kind |-> "timeout", content |-> <<>>]

\* Variant: the stub answers with the task as its text.
StubAdapterEchoes(provider, task, config) ==
    Success(provider, task)

\* _call_gemini, _call_claude, _call_glm
StubAdapter(provider, task, config) ==
    Failure(provider, Msg(provider \o "_not_implemented", "", <<>>), task)

\* _call_deepseek, _call_doubao, _call_openai
HttpChatAdapter(provider, task, config, response) ==
    CASE response.kind = "ok" ->
            Success(provider, Strip(response.content))
      [] response.kind = "http_error" ->
            Failure(provider, Msg("api_call_failed", "", IntToStr(500)), task)
      [] response.kind = "timeout" ->
            IF provider = "deepseek"
            THEN Failure(provider,
                         Msg("deepseek_timeout", "",
                             PyStr(Get(config, "timeout", IntV(DEFAULT_TIMEOUT)))), task)
            ELSE Failure(provider, Msg("request_timeout", "", <<>>), task)
      [] OTHER ->
            \* result["choices"] raises KeyError, caught by except Exception
            IF provider = "deepseek"
            THEN Failure(provider, Msg("deepseek_call_exception", "", <<"'choices'">>), task)
            ELSE Failure(provider, Msg("exception_text", "", <<"'choices'">>), task)

\* _call_wenxin: result.get("result", "") needs no text field.
WenxinAdapter(provider, task, config, response) ==
    CASE response.kind = "ok" ->
            Success(provider, Strip(response.content))
      [] response.kind = "no_text" ->
            Success(provider, Strip(<<>>))
      [] response.kind = "http_error" ->
            Failure(provider, Msg("api_call_failed", "", IntToStr(500)), task)
      [] OTHER ->
            Failure(provider, Msg("request_timeout", "", <<>>), task)

\* _call_yuanbao, _call_tongyi: every failure is an exception of the client,
\* told apart by its text.
SdkAdapter(provider, task, config, response) ==
    CASE response.kind = "ok" ->
            Success(provider, Strip(response.content))
      [] response.kind = "timeout" ->
            IF provider = "yuanbao"
            THEN Failure(provider,
                         Msg("yuanbao_timeout", "",
                             PyStr(Get(config, "timeout", IntV(DEFAULT_TIMEOUT)))), task)
            ELSE Failure(provider, Msg("exception_text", "", <<"Request timed out.">>), task)
      [] response.kind = "http_error" ->
            IF provider = "yuanbao"
            THEN Failure(provider, Msg("yuanbao_call_exception", "", <<"Error code: 500">>), task)
            ELSE Failure(provider, Msg("exception_text", "", <<"Error code: 500">>), task)
      [] OTHER ->
            \* message.content is None: .strip() raises AttributeError
            IF provider = "yuanbao"
            THEN Failure(provider,
                         Msg("yuanbao_call_exception", "",
                             <<AttributeErrorText(NoneV, "strip")>>), task)
            ELSE Failure(provider,
                         Msg("exception_text", "", <<AttributeErrorText(NoneV, "strip")>>),
                         task)

\* The if/elif chain of simplify_task_async for the adapters that await.
Adapter(provider, task, config, response) ==
    IF provider \in HttpChatProviders
    THEN HttpChatAdapter(provider, task, config, response)
    ELSE IF provider \in SdkProviders
    THEN SdkAdapter(provider, task, config, response)
    ELSE WenxinAdapter(provider, task, config, response)

(***************************************************************************)
(* simplify_task_async, in the two pieces its awaits cut it into.  A call  *)
(* is [st, out, validations, adapter_calls]: st is "created" before the    *)
(* coroutine runs, "awaiting" while its adapter waits for the vendor and   *)
(* "settled" when it has returned (or raised) out.                         *)
(***************************************************************************)
NoOutcome == [kind |-> "none", result |-> Failure("", NoMsg, <<>>), exc |-> <<>>]

\* A coroutine or an entry point that raised: str(e) is text.
Raised(text) == [kind |-> "raise", result |-> NoOutcome.result, exc |-> <<text>>]

Created ==
    [st |-> "created", out |-> NoOutcome, validations |-> 0, adapter_calls |-> 0]

Settled(result, validations, adapter_calls) ==
    [st |-> "settled", out |-> [kind |-> "return", result |-> result, exc |-> <<>>],
     validations |-> validations, adapter_calls |-> adapter_calls]


\* Variant: a provider without an entry is validated as an empty config.
simplify_task_async_no_lookup(task_description, provider, cfgs) ==
    LET config == IF provider \in DOMAIN cfgs THEN cfgs[provider]
                  ELSE Config(Absent, Absent, Absent, Absent)
        validation == _validate_config(provider, config)
    IN  IF ~validation.result.valid
        THEN Settled(FailureWithField(provider, validation.result.error,
                                      validation.result.field, task_description),
                     1, 0)
        ELSE IF provider \in StubProviders
        THEN Settled(StubAdapter(provider, task_description, config), 1, 1)
        ELSE [st |-> "awaiting", out |-> NoOutcome,
              validations |-> 1, adapter_calls |-> 1]

\* Variant: a failed validation is folded without its field.
simplify_task_async_drops_field(task_description, provider, cfgs) ==
    IF provider \notin DOMAIN cfgs
    THEN Settled(Failure(provider, Msg("no_config", provider, <<>>), task_description),
                 0, 0)
    ELSE LET config == cfgs[provider]
             validation == _validate_config(provider, config)
         IN  IF ~validation.result.valid
             THEN Settled(Failure(provider, validation.result.error, task_description),
                          1, 0)
             ELSE IF provider \in StubProviders
             THEN Settled(StubAdapter(provider, task_description, config), 1, 1)
             ELSE [st |-> "awaiting", out |-> NoOutcome,
                   validations |-> 1, adapter_calls |-> 1]

\* From the entry of the coroutine to its first await or its return.
simplify_task_async(task_description, provider, cfgs) ==
    IF provider \notin DOMAIN cfgs
    THEN Settled(Failure(provider, Msg("no_config", provider, <<>>), task_description),
                 0, 0)
    ELSE LET config == cfgs[provider]
             validation == _validate_config(provider, config)
         IN  IF validation.kind = "raise"
             THEN \* except Exception as e
                  Settled(Failure(provider, Msg("exception_text", "", validation.exc),
                                  task_description), 1, 0)
             ELSE IF ~validation.result.valid
             THEN Settled(FailureWithField(provider, validation.result.error,
                                           validation.result.field, task_description),
                          1, 0)
             ELSE IF provider \in StubProviders
             THEN Settled(StubAdapter(provider, task_description, config), 1, 1)
             ELSE [st |-> "awaiting", out |-> NoOutcome,
                   validations |-> 1, adapter_calls |-> 1]

\* Variant: a failed attempt is repeated once.
simplify_task_async_resume_retrying(call, task_description, provider, cfgs, response) ==
    LET result == Adapter(provider, task_description, cfgs[provider], response)
    IN  IF ~result.success /\ call.adapter_calls < 2
        THEN [st |-> "awaiting", out |-> NoOutcome,
              validations |-> call.validations,
              adapter_calls |-> call.adapter_calls + 1]
        ELSE Settled(result, call.validations, call.adapter_calls)

\* From the vendor's response to the return of the coroutine.
simplify_task_async_resume(call, task_description, provider, cfgs, response) ==
    Settled(Adapter(provider, task_description, cfgs[provider], response),
            call.validations, call.adapter_calls)

(***************************************************************************)
(* simplify_task_multiple_providers, after asyncio.gather has every        *)
(* result.                                                                 *)
(***************************************************************************)
MAX_ERRORS_SHOWN == 3

\* str.upper() on provider.value
Upper(name) ==
    CASE name = "deepseek" -> "DEEPSEEK"
      [] name = "doubao" -> "DOUBAO"
      [] name = "yuanbao" -> "YUANBAO"
      [] name = "openai" -> "OPENAI"
      [] name = "gemini" -> "GEMINI"
      [] name = "claude" -> "CLAUDE"
      [] name = "glm" -> "GLM"
      [] name = "wenxin" -> "WENXIN"
      [] name = "tongyi" -> "TONGYI"
      [] OTHER -> "UNKNOWN"


\* Variant: only the dicts of the successful calls are collected.
CollectResultsSuccessOnly(task_description, providers, outs) ==
    SelectSeq([i \in 1..Len(outs) |-> outs[i].result], LAMBDA r : r.success)

\* for i, result in enumerate(provider_results): an exception becomes a
\* failure dict of providers[i], a dict is kept.
CollectResults(task_description, providers, outs) ==
    [i \in 1..Len(outs) |->
        IF outs[i].kind = "raise"
        THEN Failure(providers[i], Msg("exception_text", "", outs[i].exc),
                     task_description)
        ELSE outs[i].result]


\* Variant: a later result of the same length replaces the best so far.
RECURSIVE PyMinLastWins(_, _, _)
PyMinLastWins(results, positions, best) ==
    IF positions = <<>> THEN best
    ELSE PyMinLastWins(results, Tail(positions),
                       IF Len(results[Head(positions)].simplified_task)
                              <= Len(results[best].simplified_task)
                       THEN Head(positions) ELSE best)

\* min(successful_results, key=len(simplified_task)) over the positions of
\* the successful results, in list order: a later one replaces the best so
\* far only when it is strictly shorter.
RECURSIVE PyMin(_, _, _)
PyMin(results, positions, best) ==
    IF positions = <<>> THEN best
    ELSE PyMin(results, Tail(positions),
               IF Len(results[Head(positions)].simplified_task)
                      < Len(results[best].simplified_task)
               THEN Head(positions) ELSE best)

SuccessfulPositions(results) ==
    LET RECURSIVE Collect(_)
        Collect(i) ==
            IF i > Len(results) THEN <<>>
            ELSE (IF results[i].success THEN <<i>> ELSE <<>>) \o Collect(i + 1)
    IN  Collect(1)


\* Variant: every error is listed, the count of the rest is kept.
ErrorSummaryUncut(results) ==
    LET error_details ==
            [i \in 1..Len(results) |->
                [name |-> Upper(results[i].provider), error |-> results[i].error]]
    IN  [id |-> "all_failed",
         bullets |-> error_details,
         more |-> IF Len(error_details) > MAX_ERRORS_SHOWN
                  THEN <<Len(error_details) - MAX_ERRORS_SHOWN>> ELSE <<>>]

\* error_details, the first MAX_ERRORS_SHOWN of them joined after the
\* header, and the count of the rest when there is a rest.
ErrorSummary(results) ==
    LET error_details ==
            [i \in 1..Len(results) |->
                [name |-> Upper(results[i].provider), error |-> results[i].error]]
        shown == IF Len(error_details) > MAX_ERRORS_SHOWN
                 THEN MAX_ERRORS_SHOWN ELSE Len(error_details)
    IN  [id |-> "all_failed",
         bullets |-> SubSeq(error_details, 1, shown),
         more |-> IF Len(error_details) > MAX_ERRORS_SHOWN
                  THEN <<Len(error_details) - MAX_ERRORS_SHOWN>> ELSE <<>>]

\* best_result is the dict in the list: after best_result["all_results"] =
\* results the list holds the returned dict itself.  The inner all_results
\* of that entry (the list again) is left empty here.
simplify_task_multiple_providers(task_description, providers, outs) ==
    LET results == CollectResults(task_description, providers, outs)
        successful == SuccessfulPositions(results)
    IN  IF successful # <<>>
        THEN LET best == PyMin(results, Tail(successful), Head(successful))
                 attached == [results EXCEPT ![best].keys = @ \cup {"all_results"}]
             IN  [attached[best] EXCEPT !.all_results = attached]
        ELSE [keys |-> {"success", "error", "simplified_task", "all_results"},
              success |-> FALSE, provider |-> "", error |-> ErrorSummary(results),
              field |-> "", simplified_task |-> task_description,
              all_results |-> results]

(***************************************************************************)
(* State.                                                                  *)
(***************************************************************************)
VARIABLES
    vprovider,   \* the provider argument of a function called on its own
    vconfig,     \* its config argument
    vout,        \* what _validate_config did: NotCalled, a returned dict or a raise
    configs,     \* TaskSimplifier.configs: provider -> config
    pc,          \* "idle", "running" (coroutines in flight) or "done"
    entry,       \* the entry point in progress: "async", "sync" or "multi"
    task,        \* task_description of the request
    providers,   \* the providers of the request, in argument order
    calls,       \* one simplify_task_async coroutine per provider
    ret,         \* what the entry point returned (or raised)
    open_loops,  \* event loops created by simplify_task and not closed
    store,       \* ai_config.json as load_config last found it
    mout,        \* what the last query of the manager returned (or raised)
    completed    \* history: the calls of the request in the order they settled

vvars == <<vprovider, vconfig, vout>>
ovars == <<configs, pc, entry, task, providers, calls, ret, open_loops>>
mvars == <<store, mout>>
vars == <<vprovider, vconfig, vout, configs, pc, entry, task, providers, calls,
          ret, open_loops, store, mout, completed>>

NotCalled == [kind |-> "none", result |-> ValidResult, exc |-> <<>>]

\* No ai_config.json in the working directory; no query made yet.
NoStore == [kind |-> "absent", data |-> <<>>]
NoQuery == [op |-> "", kind |-> "none", names |-> <<>>, status |-> <<>>, exc |-> <<>>]

\* The history of completions is kept by the specification that examines
\* the order of completion, and left empty by the others.
NotRecorded == [on |-> FALSE, order |-> <<>>]
Recorded == [on |-> TRUE, order |-> <<>>]
Record(h, settled) == IF h.on THEN [h EXCEPT !.order = @ \o settled] ELSE h

(***************************************************************************)
(* Inputs of the validator: every combination of these field values, and   *)
(* one configuration entry that is no JSON object.                         *)
(***************************************************************************)
KeyFiller == 20

ApiKeyValues ==
    { Absent, NoneV, Str(<<>>), Str(<<" ", "\t">>),
      Str(SK_PREFIX \o Rep("x", KeyFiller)),
      Str(SK_PREFIX \o Rep("y", SK_KEY_MIN_LEN - 3)),
      Str(<<" ">> \o SK_PREFIX \o Rep("x", SK_KEY_MIN_LEN - 4) \o <<" ", " ">>),
      Str(Rep("k", SK_KEY_MIN_LEN)),
      Str(Rep("k", DOUBAO_KEY_MIN_LEN - 1)) }

BaseUrlValues ==
    { Absent, NoneV,
      Str(FTP_SCHEME \o OTHER_HOST),
      Str(HTTP_SCHEME \o OTHER_HOST),
      Str(HTTPS_SCHEME \o DEEPSEEK_HOST),
      Str(<<" ">> \o HTTPS_SCHEME \o OPENAI_HOST \o <<"/", "v", "1">>),
      Str(HTTPS_SCHEME \o <<"a", "r", "k", ".">> \o DOUBAO_HOST) }

ModelValues ==
    { Absent, NoneV, Str(<<" ">>),
      Str(DEEPSEEK_CHAT), Str(GPT4O \o <<"-", "m">>),
      Str(EP_PREFIX \o <<"1">>), Str(QWEN_PLUS) }

TimeoutValues ==
    { Absent, NoneV, Inf,
      IntV(TIMEOUT_MIN - 1), IntV(TIMEOUT_MIN), IntV(DEFAULT_TIMEOUT),
      IntV(TIMEOUT_MAX), IntV(TIMEOUT_MAX + 1),
      FloatV(19), Str(<<"a", "b", "c">>), Str(<<" ", "3", "0">>) }

MaxTokensValues ==
    { Absent, Inf, IntV(MAX_TOKENS_MAX + 1), Str(<<"x">>) }

TemperatureValues ==
    { Absent, NaN, FloatV(10 * TEMPERATURE_MAX + 1), Str(<<"h", "o", "t">>) }

NotADict ==
    [isdict |-> FALSE, api_key |-> Absent, base_url |-> Absent, model |-> Absent,
     timeout |-> Absent, max_tokens |-> Absent, temperature |-> Absent]

\* Every combination of the text fields with a few numeric settings, and
\* every combination of the numeric fields with the text fields that some
\* provider accepts.
ValidatorConfigs ==
    [isdict : {TRUE}, api_key : ApiKeyValues, base_url : BaseUrlValues,
     model : ModelValues,
     timeout : {Absent, Inf, IntV(TIMEOUT_MIN - 1)},
     max_tokens : {Absent, Str(<<"x">>)},
     temperature : {Absent, Str(<<"h", "o", "t">>)}]
        \cup
    [isdict : {TRUE}, api_key : {Str(SK_PREFIX \o Rep("x", KeyFiller))},
     base_url : {v \in BaseUrlValues :
                    v.ty = "str" /\ (StartsWith(Strip(v.s), HTTP_SCHEME)
                                        \/ StartsWith(Strip(v.s), HTTPS_SCHEME))},
     model : {v \in ModelValues : v.ty = "str" /\ Strip(v.s) # <<>>},
     timeout : TimeoutValues, max_tokens : MaxTokensValues,
     temperature : TemperatureValues]
        \cup {NotADict}

(***************************************************************************)
(* The validator as a program of its own: one call on one input.           *)
(***************************************************************************)
NoRequest ==
    /\ pc = "idle"
    /\ entry = ""
    /\ task = <<>>
    /\ providers = <<>>
    /\ calls = <<>>
    /\ ret = NoOutcome
    /\ open_loops = 0
    /\ store = NoStore
    /\ mout = NoQuery
    /\ completed = NotRecorded

InitValidate ==
    /\ vprovider \in AIProvider
    /\ vconfig \in ValidatorConfigs
    /\ vout = NotCalled
    /\ configs = <<>>
    /\ NoRequest

Validate ==
    /\ vout.kind = "none"
    /\ vout' = _validate_config(vprovider, vconfig)
    /\ UNCHANGED <<vprovider, vconfig>>
    /\ UNCHANGED ovars
    /\ UNCHANGED mvars
    /\ UNCHANGED completed

NextValidate == Validate

SpecValidate == InitValidate /\ [][NextValidate]_vars

(***************************************************************************)
(* The orchestrator.  Its configuration mapping is one of: a mapping with  *)
(* valid, invalid and missing entries, and the empty mapping of a first    *)
(* run.                                                                    *)
(***************************************************************************)
GoodKey == Str(SK_PREFIX \o Rep("x", KeyFiller))
PlainUrl == Str(HTTP_SCHEME \o OTHER_HOST)

MixedConfigs ==
    [p \in AIProvider \ {"claude"} |->
        CASE p = "deepseek" ->
                Config(GoodKey, Str(HTTPS_SCHEME \o DEEPSEEK_HOST), Str(DEEPSEEK_CHAT),
                       IntV(TIMEOUT_MAX))
          [] p = "openai" ->
                Config(GoodKey, Str(HTTPS_SCHEME \o OPENAI_HOST), Str(GPT4O), Absent)
          [] p = "doubao" ->
                Config(GoodKey, PlainUrl, Str(EP_PREFIX \o <<"1">>), Absent)
          [] p = "yuanbao" ->
                Config(GoodKey, NoneV, Str(QWEN_PLUS), Absent)
          [] p = "glm" ->
                Config(GoodKey, PlainUrl, Str(QWEN_PLUS), IntV(TIMEOUT_MIN - 1))
          [] p = "wenxin" ->
                Config(Str(<<" ">>), PlainUrl, Str(QWEN_PLUS), Absent)
          [] OTHER ->
                Config(GoodKey, PlainUrl, Str(QWEN_PLUS), Absent)]

ConfigMappings == {MixedConfigs, <<>>}

Tasks == { <<"o", "p", "e", "n", " ", "a", "p", "p">>, <<"g", "o">> }

\* What a vendor may answer.  The fan-out is explored with the answers
\* that matter to the selection: texts of two lengths, a blank text and a
\* failure.
Responses ==
    { OkResponse(<<" ", "a", "b">>), OkResponse(<<"a", "b", "c", "d", "e">>),
      OkResponse(<<" ">>), NoTextResponse, HttpErrorResponse, TimeoutResponse }

FanoutResponses ==
    { OkResponse(<<" ", "a", "b">>), OkResponse(<<"a", "b", "c", "d", "e">>),
      OkResponse(<<" ">>), HttpErrorResponse }

MaxProviders == 4

FanoutProviders == {"deepseek", "openai", "tongyi", "doubao", "claude"}

\* Argument lists of the fan-out: the providers in any order, none twice.
ProviderLists ==
    UNION { { l \in [1..n -> FanoutProviders] :
                \A i \in 1..n : \A j \in 1..n : l[i] = l[j] => i = j }
            : n \in 0..MaxProviders }

Init ==
    /\ vprovider = "deepseek"
    /\ vconfig = NotADict
    /\ vout = NotCalled
    /\ configs \in ConfigMappings
    /\ NoRequest

\* await simplifier.simplify_task_async(task, provider)
InvokeAsync(t, p) ==
    /\ pc = "idle"
    /\ pc' = "running"
    /\ entry' = "async"
    /\ task' = t
    /\ providers' = <<p>>
    /\ calls' = <<Created>>
    /\ UNCHANGED <<configs, ret, open_loops>>
    /\ UNCHANGED vvars
    /\ UNCHANGED mvars
    /\ UNCHANGED completed

\* simplifier.simplify_task(task, provider): a new event loop runs the
\* coroutine.
InvokeSync(t, p) ==
    /\ pc = "idle"
    /\ pc' = "running"
    /\ entry' = "sync"
    /\ task' = t
    /\ providers' = <<p>>
    /\ calls' = <<Created>>
    /\ open_loops' = open_loops + 1
    /\ UNCHANGED <<configs, ret>>
    /\ UNCHANGED vvars
    /\ UNCHANGED mvars
    /\ UNCHANGED completed

\* await simplifier.simplify_task_multiple_providers(task, providers): one
\* coroutine per provider is handed to asyncio.gather.
InvokeMulti(t, ps) ==
    /\ pc = "idle"
    /\ pc' = "running"
    /\ entry' = "multi"
    /\ task' = t
    /\ providers' = ps
    /\ calls' = [i \in 1..Len(ps) |-> Created]
    /\ UNCHANGED <<configs, ret, open_loops>>
    /\ UNCHANGED vvars
    /\ UNCHANGED mvars
    /\ UNCHANGED completed

\* The event loop runs coroutine i up to its first await.  The loop starts
\* the coroutines in list order.
RunCall(i) ==
    /\ pc = "running"
    /\ calls[i].st = "created"
    /\ \A j \in 1..(i - 1) : calls[j].st # "created"
    /\ calls' = [calls EXCEPT ![i] = simplify_task_async(task, providers[i], configs)]
    /\ UNCHANGED <<configs, pc, entry, task, providers, ret, open_loops>>
    /\ UNCHANGED vvars
    /\ UNCHANGED mvars
    /\ completed' = Record(completed,
                           IF calls'[i].st = "settled" THEN <<i>> ELSE <<>>)

\* Variant: a call that fails cancels the calls that still wait.
VendorRespondsCancelling(i, response) ==
    /\ pc = "running"
    /\ calls[i].st = "awaiting"
    /\ \A j \in 1..Len(calls) : calls[j].st # "created"
    /\ LET mine == simplify_task_async_resume(calls[i], task, providers[i],
                                              configs, response)
       IN  calls' = [j \in 1..Len(calls) |->
                        IF j = i THEN mine
                        ELSE IF ~mine.out.result.success /\ calls[j].st = "awaiting"
                        THEN [st |-> "settled", out |-> Raised("CancelledError"),
                              validations |-> calls[j].validations,
                              adapter_calls |-> calls[j].adapter_calls]
                        ELSE calls[j]]
    /\ UNCHANGED <<configs, pc, entry, task, providers, ret, open_loops>>
    /\ UNCHANGED vvars
    /\ UNCHANGED mvars
    /\ completed' = Record(completed, <<i>>)

\* The vendor of call i answers (or the request times out) and the
\* coroutine runs to its return.  I/O is polled once every started
\* coroutine has reached its await.
VendorResponds(i, response) ==
    /\ pc = "running"
    /\ calls[i].st = "awaiting"
    /\ \A j \in 1..Len(calls) : calls[j].st # "created"
    /\ calls' = [calls EXCEPT
                    ![i] = simplify_task_async_resume(calls[i], task, providers[i],
                                                      configs, response)]
    /\ UNCHANGED <<configs, pc, entry, task, providers, ret, open_loops>>
    /\ UNCHANGED vvars
    /\ UNCHANGED mvars
    /\ completed' = Record(completed, <<i>>)

\* Variant: the gather is over with the first call that settles.
FirstSettled == \E i \in 1..Len(calls) : calls[i].st = "settled"

\* asyncio.gather(*tasks, return_exceptions=True) returns when every task
\* is done.
AllSettled == \A i \in 1..Len(calls) : calls[i].st = "settled"

\* Variant: the outcomes in the order the calls completed, as a loop over
\* asyncio.as_completed would collect them.
OutcomesAsCompleted ==
    IF completed.on /\ Len(completed.order) = Len(calls)
    THEN [k \in 1..Len(calls) |-> calls[completed.order[k]].out]
    ELSE [i \in 1..Len(calls) |-> calls[i].out]

\* provider_results = await asyncio.gather(...): the outcome of tasks[i] at
\* position i, whenever the task completed.
Outcomes ==
    [i \in 1..Len(calls) |-> calls[i].out]

\* simplify_task after run_until_complete: loop.close() and return, or the
\* except branch when running the coroutine raised.
simplify_task(task_description, provider, out) ==
    IF out.kind = "raise"
    THEN [loops_closed |-> 0,
          out |-> [kind |-> "return",
                   result |-> Failure(provider, Msg("exception_text", "", out.exc),
                                      task_description),
                   exc |-> <<>>]]
    ELSE [loops_closed |-> 1, out |-> out]

\* The awaited coroutine(s) are done: the entry point returns.
Complete ==
    /\ pc = "running"
    /\ AllSettled
    /\ pc' = "done"
    /\ \/ /\ entry = "async"
          /\ ret' = calls[1].out
          /\ UNCHANGED open_loops
       \/ /\ entry = "sync"
          /\ LET r == simplify_task(task, providers[1], calls[1].out)
             IN  /\ ret' = r.out
                 /\ open_loops' = open_loops - r.loops_closed
       \/ /\ entry = "multi"
          /\ ret' = [kind |-> "return",
                     result |-> simplify_task_multiple_providers(task, providers, Outcomes),
                     exc |-> <<>>]
          /\ UNCHANGED open_loops
    /\ UNCHANGED <<configs, entry, task, providers, calls>>
    /\ UNCHANGED vvars
    /\ UNCHANGED mvars
    /\ UNCHANGED completed

\* The caller is done with the result; the next request may come.
NextRequest ==
    /\ pc = "done"
    /\ pc' = "idle"
    /\ entry' = ""
    /\ task' = <<>>
    /\ providers' = <<>>
    /\ calls' = <<>>
    /\ ret' = NoOutcome
    /\ UNCHANGED <<configs, open_loops>>
    /\ UNCHANGED vvars
    /\ UNCHANGED mvars
    /\ completed' = [completed EXCEPT !.order = <<>>]

Next ==
    \/ \E t \in Tasks : \E p \in AIProvider : InvokeAsync(t, p)
    \/ \E t \in Tasks : \E p \in AIProvider : InvokeSync(t, p)
    \/ \E t \in Tasks : \E ps \in ProviderLists : InvokeMulti(t, ps)
    \/ \E i \in 1..Len(calls) : RunCall(i)
    \/ \E i \in 1..Len(calls) :
          \E response \in (IF entry = "multi" THEN FanoutResponses ELSE Responses) :
              VendorResponds(i, response)
    \/ Complete
    \/ NextRequest

Spec == Init /\ [][Next]_vars

(***************************************************************************)
(* class TaskSimplifierManager.  self.simplifier.configs is configs; the   *)
(* configuration file is an input of load_config, kept in store as it was  *)
(* last read.  self.simplifier is never falsy once __init__ has run, so    *)
(* the "if not self.simplifier" reloads never happen.                      *)
(***************************************************************************)
\* The members of AIProvider in definition order.
ProviderOrder ==
    <<"deepseek", "doubao", "yuanbao", "openai", "gemini",
      "claude", "glm", "wenxin", "tongyi">>

\* bool(value), as the "and" of the comprehensions tests it
Truthy(v) ==
    CASE v.ty \in {"absent", "none"} -> FALSE
      [] v.ty = "str" -> v.s # <<>>
      [] v.ty \in {"int", "float", "bool"} -> v.n # 0
      [] OTHER -> TRUE

BoolV(b) == [ty |-> "bool", n |-> IF b THEN 1 ELSE 0, s |-> <<>>]

\* Variant: every entry of the file is kept under its name.
load_config_keeps_all(file) ==
    IF file.kind = "object" THEN file.data ELSE <<>>

\* load_config: the entries of a JSON object whose names are AIProvider
\* values; an empty TaskSimplifier when there is no file, when reading it
\* raises, and when its top level has no .items().
load_config(file) ==
    IF file.kind = "object"
    THEN [p \in (DOMAIN file.data) \cap AIProvider |-> file.data[p]]
    ELSE <<>>

\* provider in self.simplifier.configs and
\* self.simplifier.configs[provider].get("api_key"): the value of the
\* "and", or the AttributeError of an entry that is no dict.
KeyTest(cfgs, p) ==
    IF p \notin DOMAIN cfgs THEN Return(BoolV(FALSE))
    ELSE IF ~cfgs[p].isdict THEN Raise("'list' object has no attribute 'get'")
    ELSE Return(Get(cfgs[p], "api_key", NoneV))

\* The first member, in definition order, whose test raises.
FirstRaise(cfgs) ==
    LET raising == SelectSeq(ProviderOrder, LAMBDA p : KeyTest(cfgs, p).kind = "raise")
    IN  IF raising = <<>> THEN <<>> ELSE KeyTest(cfgs, Head(raising)).exc

Answer(op, names, status) ==
    [op |-> op, kind |-> "return", names |-> names, status |-> status, exc |-> <<>>]

QueryRaises(op, exc) ==
    [op |-> op, kind |-> "raise", names |-> <<>>, status |-> <<>>, exc |-> exc]

\* Variant: an entry counts as available as soon as it is in the mapping.
get_available_providers_any_entry(cfgs) ==
    Answer("get_available_providers",
           SelectSeq(ProviderOrder, LAMBDA p : p \in DOMAIN cfgs), <<>>)

get_available_providers(cfgs) ==
    IF FirstRaise(cfgs) # <<>>
    THEN QueryRaises("get_available_providers", FirstRaise(cfgs))
    ELSE Answer("get_available_providers",
                SelectSeq(ProviderOrder,
                          LAMBDA p : Truthy(KeyTest(cfgs, p).result)),
                <<>>)

get_provider_status(cfgs) ==
    IF FirstRaise(cfgs) # <<>>
    THEN QueryRaises("get_provider_status", FirstRaise(cfgs))
    ELSE Answer("get_provider_status", <<>>,
                [p \in AIProvider |-> KeyTest(cfgs, p).result])

\* The dict returned when no provider is available.
NoProviderFailure(task_description) ==
    [keys |-> {"success", "error", "simplified_task"},
     success |-> FALSE, provider |-> "", error |-> Msg("no_provider", "", <<>>),
     field |-> "", simplified_task |-> task_description, all_results |-> <<>>]

\* str(e) of the ValueError of AIProvider(name)
ValueErrorText(name) == "'" \o name \o "' is not a valid AIProvider"

\* What ai_config.json may hold when load_config reads it.
PlainConfig == Config(GoodKey, PlainUrl, Str(QWEN_PLUS), Absent)

UnknownNames == {"mistral", "DeepSeek"}

NoFile == NoStore
UnreadableFile == [kind |-> "unreadable", data |-> <<>>]
ListFile == [kind |-> "not_object", data |-> <<>>]
ObjectFile(data) == [kind |-> "object", data |-> data]

MixedFile ==
    ObjectFile([n \in DOMAIN MixedConfigs \cup UnknownNames |->
                   IF n \in DOMAIN MixedConfigs THEN MixedConfigs[n] ELSE PlainConfig])

SmallFile ==
    ObjectFile([n \in {"tongyi", "claude", "wenxin", "mistral"} |-> PlainConfig])

NoKeysFile ==
    ObjectFile([n \in {"deepseek", "openai", "glm"} |->
                   CASE n = "deepseek" -> Config(Str(<<>>), PlainUrl, Str(QWEN_PLUS), Absent)
                     [] n = "openai" -> Config(Absent, PlainUrl, Str(QWEN_PLUS), Absent)
                     [] OTHER -> Config(NoneV, PlainUrl, Str(QWEN_PLUS), Absent)])

UnknownOnlyFile == ObjectFile([n \in UnknownNames |-> PlainConfig])

BadEntryFile ==
    ObjectFile([n \in {"deepseek", "gemini", "mistral"} |->
                   IF n = "deepseek" THEN MixedConfigs[n] ELSE NotADict])

Files ==
    { NoFile, UnreadableFile, ListFile, MixedFile, SmallFile, NoKeysFile,
      UnknownOnlyFile, BadEntryFile }

\* The provider argument of the manager: a member's value or another name.
ProviderNames == AIProvider \cup {"mistral"}

InitManager ==
    /\ vprovider = "deepseek"
    /\ vconfig = NotADict
    /\ vout = NotCalled
    /\ store \in Files
    /\ configs = load_config(store)
    /\ mout = NoQuery
    /\ completed = NotRecorded
    /\ pc = "idle"
    /\ entry = ""
    /\ task = <<>>
    /\ providers = <<>>
    /\ calls = <<>>
    /\ ret = NoOutcome
    /\ open_loops = 0

\* manager.load_config() with the file as it is now
LoadConfig(file) ==
    /\ pc = "idle"
    /\ store' = file
    /\ configs' = load_config(file)
    /\ UNCHANGED <<pc, entry, task, providers, calls, ret, open_loops, mout>>
    /\ UNCHANGED vvars
    /\ UNCHANGED completed

\* manager.get_available_providers()
GetAvailableProviders ==
    /\ pc = "idle"
    /\ pc' = "answered"
    /\ mout' = get_available_providers(configs)
    /\ UNCHANGED <<configs, entry, task, providers, calls, ret, open_loops, store>>
    /\ UNCHANGED vvars
    /\ UNCHANGED completed

\* manager.get_provider_status()
GetProviderStatus ==
    /\ pc = "idle"
    /\ pc' = "answered"
    /\ mout' = get_provider_status(configs)
    /\ UNCHANGED <<configs, entry, task, providers, calls, ret, open_loops, store>>
    /\ UNCHANGED vvars
    /\ UNCHANGED completed

\* The caller is done with the answer.
QueryDone ==
    /\ pc = "answered"
    /\ pc' = "idle"
    /\ mout' = NoQuery
    /\ UNCHANGED <<configs, entry, task, providers, calls, ret, open_loops, store>>
    /\ UNCHANGED vvars
    /\ UNCHANGED completed

\* manager.simplify_task(task, name): AIProvider(name) raises for a name
\* that is no member; otherwise simplifier.simplify_task runs the
\* coroutine on a new event loop.
ManagerSimplifyWith(t, name) ==
    /\ pc = "idle"
    /\ entry' = "manager_one"
    /\ task' = t
    /\ IF name \notin AIProvider
       THEN /\ pc' = "done"
            /\ providers' = <<>>
            /\ calls' = <<>>
            /\ ret' = Raised(ValueErrorText(name))
            /\ UNCHANGED open_loops
       ELSE /\ pc' = "running"
            /\ providers' = <<name>>
            /\ calls' = <<Created>>
            /\ open_loops' = open_loops + 1
            /\ UNCHANGED ret
    /\ UNCHANGED <<configs, store, mout>>
    /\ UNCHANGED vvars
    /\ UNCHANGED completed

\* manager.simplify_task(task): the available providers go to
\* simplify_task_multiple_providers on a new event loop; none available
\* returns at once; an entry that is no dict raises out of the
\* comprehension.
ManagerSimplifyBest(t) ==
    /\ pc = "idle"
    /\ entry' = "manager_all"
    /\ task' = t
    /\ LET available == get_available_providers(configs)
       IN  IF available.kind = "raise"
           THEN /\ pc' = "done"
                /\ providers' = <<>>
                /\ calls' = <<>>
                /\ ret' = Raised(available.exc[1])
                /\ UNCHANGED open_loops
           ELSE IF available.names = <<>>
           THEN /\ pc' = "done"
                /\ providers' = <<>>
                /\ calls' = <<>>
                /\ ret' = [kind |-> "return", result |-> NoProviderFailure(t),
                           exc |-> <<>>]
                /\ UNCHANGED open_loops
           ELSE /\ pc' = "running"
                /\ providers' = available.names
                /\ calls' = [i \in 1..Len(available.names) |-> Created]
                /\ open_loops' = open_loops + 1
                /\ UNCHANGED ret
    /\ UNCHANGED <<configs, store, mout>>
    /\ UNCHANGED vvars
    /\ UNCHANGED completed

\* run_until_complete is back: the manager returns what
\* simplifier.simplify_task returns, or the result of the fan-out after
\* the finally has closed the loop.
ManagerComplete ==
    /\ pc = "running"
    /\ entry \in {"manager_one", "manager_all"}
    /\ AllSettled
    /\ pc' = "done"
    /\ IF entry = "manager_one"
       THEN LET r == simplify_task(task, providers[1], calls[1].out)
            IN  /\ ret' = r.out
                /\ open_loops' = open_loops - r.loops_closed
       ELSE /\ ret' = [kind |-> "return",
                       result |-> simplify_task_multiple_providers(task, providers,
                                                                   Outcomes),
                       exc |-> <<>>]
            /\ open_loops' = open_loops - 1
    /\ UNCHANGED <<configs, entry, task, providers, calls, store, mout>>
    /\ UNCHANGED vvars
    /\ UNCHANGED completed

NextManager ==
    \/ Next
    \/ \E file \in Files : LoadConfig(file)
    \/ GetAvailableProviders
    \/ GetProviderStatus
    \/ QueryDone
    \/ \E t \in Tasks : \E name \in ProviderNames : ManagerSimplifyWith(t, name)
    \/ \E t \in Tasks : ManagerSimplifyBest(t)
    \/ ManagerComplete

SpecManager == InitManager /\ [][NextManager]_vars

(***************************************************************************)
(* The fan-out with the order of completion kept: the same actions, and    *)
(* the history variable switched on.                                       *)
(***************************************************************************)
InitOrder ==
    /\ vprovider = "deepseek"
    /\ vconfig = NotADict
    /\ vout = NotCalled
    /\ configs = MixedConfigs
    /\ pc = "idle"
    /\ entry = ""
    /\ task = <<>>
    /\ providers = <<>>
    /\ calls = <<>>
    /\ ret = NoOutcome
    /\ open_loops = 0
    /\ store = NoStore
    /\ mout = NoQuery
    /\ completed = Recorded

NextOrder ==
    \/ \E t \in Tasks : \E ps \in ProviderLists : InvokeMulti(t, ps)
    \/ \E i \in 1..Len(calls) : RunCall(i)
    \/ \E i \in 1..Len(calls) :
          \E response \in FanoutResponses : VendorResponds(i, response)
    \/ Complete
    \/ NextRequest

SpecOrder == InitOrder /\ [][NextOrder]_vars

(***************************************************************************)
(* The synchronous entry points called from a thread whose event loop is   *)
(* running (from a coroutine or a callback of that loop), next to the      *)
(* calls from a thread without one.  asyncio.new_event_loop() succeeds,    *)
(* loop.run_until_complete raises RuntimeError before the coroutine runs.  *)
(***************************************************************************)
MaxOpenLoops == 2

\* str(e) of the RuntimeError of run_until_complete
LoopRunningText == "Cannot run the event loop while another loop is running"

\* The dict of the manager's except branch.
ManagerFailure(task_description, text) ==
    [keys |-> {"success", "error", "simplified_task"},
     success |-> FALSE, provider |-> "", error |-> Msg("manager_failed", "", <<text>>),
     field |-> "", simplified_task |-> task_description, all_results |-> <<>>]

\* simplifier.simplify_task(task, provider) inside a running loop: the
\* except branch returns, loop.close() is skipped.
InvokeSyncInLoop(t, p) ==
    /\ pc = "idle"
    /\ open_loops < MaxOpenLoops
    /\ pc' = "done"
    /\ entry' = "sync"
    /\ task' = t
    /\ providers' = <<p>>
    /\ calls' = <<Created>>
    /\ LET r == simplify_task(t, p, Raised(LoopRunningText))
       IN  /\ ret' = r.out
           /\ open_loops' = open_loops + 1 - r.loops_closed
    /\ UNCHANGED <<configs, store, mout>>
    /\ UNCHANGED vvars
    /\ UNCHANGED completed

\* manager.simplify_task(task, name) inside a running loop, name a member
ManagerSimplifyWithInLoop(t, name) ==
    /\ pc = "idle"
    /\ open_loops < MaxOpenLoops
    /\ name \in AIProvider
    /\ pc' = "done"
    /\ entry' = "manager_one"
    /\ task' = t
    /\ providers' = <<name>>
    /\ calls' = <<Created>>
    /\ LET r == simplify_task(t, name, Raised(LoopRunningText))
       IN  /\ ret' = r.out
           /\ open_loops' = open_loops + 1 - r.loops_closed
    /\ UNCHANGED <<configs, store, mout>>
    /\ UNCHANGED vvars
    /\ UNCHANGED completed

\* manager.simplify_task(task) inside a running loop, some provider being
\* available: the finally closes the new loop, the except branch returns.
ManagerSimplifyBestInLoop(t) ==
    /\ pc = "idle"
    /\ LET available == get_available_providers(configs)
       IN  /\ available.kind = "return"
           /\ available.names # <<>>
           /\ providers' = available.names
    /\ pc' = "done"
    /\ entry' = "manager_all"
    /\ task' = t
    /\ calls' = <<>>
    /\ ret' = [kind |-> "return", result |-> ManagerFailure(t, LoopRunningText),
               exc |-> <<>>]
    /\ UNCHANGED <<configs, store, mout, open_loops>>
    /\ UNCHANGED vvars
    /\ UNCHANGED completed

NextSync ==
    \/ \E t \in Tasks : \E p \in AIProvider : InvokeSync(t, p)
    \/ \E t \in Tasks : \E p \in AIProvider : InvokeSyncInLoop(t, p)
    \/ \E t \in Tasks : \E name \in ProviderNames : ManagerSimplifyWith(t, name)
    \/ \E t \in Tasks : \E name \in ProviderNames : ManagerSimplifyWithInLoop(t, name)
    \/ \E t \in Tasks : ManagerSimplifyBest(t)
    \/ \E t \in Tasks : ManagerSimplifyBestInLoop(t)
    \/ \E i \in 1..Len(calls) : RunCall(i)
    \/ \E i \in 1..Len(calls) : \E response \in Responses : VendorResponds(i, response)
    \/ Complete
    \/ ManagerComplete
    \/ NextRequest

SpecSync == InitManager /\ [][NextSync]_vars

(***************************************************************************)
(* The adapters without a vendor as a program of their own: a              *)
(* TaskSimplifier that holds one entry, for gemini, claude or glm, whose   *)
(* adapter is called on that entry directly and through                    *)
(* simplify_task_async.                                                    *)
(***************************************************************************)
StubConfigs ==
    [isdict : {TRUE}, api_key : ApiKeyValues, base_url : BaseUrlValues,
     model : ModelValues, timeout : {Absent, IntV(TIMEOUT_MIN - 1)},
     max_tokens : {Absent}, temperature : {Absent}]
        \cup {NotADict}

InitStub ==
    /\ vprovider \in StubProviders
    /\ vconfig \in StubConfigs
    /\ vout = NotCalled
    /\ configs = [p \in {vprovider} |-> vconfig]
    /\ NoRequest

\* await simplifier._call_gemini(task, config), _call_claude, _call_glm
CallStubAdapter(t) ==
    /\ pc = "idle"
    /\ pc' = "done"
    /\ entry' = "adapter"
    /\ task' = t
    /\ providers' = <<vprovider>>
    /\ calls' = <<Settled(StubAdapter(vprovider, t, vconfig), 0, 1)>>
    /\ ret' = [kind |-> "return", result |-> StubAdapter(vprovider, t, vconfig),
               exc |-> <<>>]
    /\ UNCHANGED <<configs, open_loops>>
    /\ UNCHANGED vvars
    /\ UNCHANGED mvars
    /\ UNCHANGED completed

NextStub ==
    \/ \E t \in Tasks : CallStubAdapter(t)
    \/ \E t \in Tasks : InvokeAsync(t, vprovider)
    \/ \E i \in 1..Len(calls) : RunCall(i)
    \/ Complete
    \/ NextRequest

SpecStub == InitStub /\ [][NextStub]_vars

(***************************************************************************)
(* Claims about _validate_config (specification SpecValidate).             *)
(***************************************************************************)
Validated == vout.kind # "none"

\* The eight checks in the order the contract lists them, each evaluated on
\* its own, and the field each one reports.
ContractChecks ==
    << CheckApiKey(vprovider, vconfig), CheckKeyFormat(vprovider, vconfig),
       CheckBaseUrl(vprovider, vconfig), CheckUrlRule(vprovider, vconfig),
       CheckModel(vprovider, vconfig), CheckTimeout(vprovider, vconfig),
       CheckMaxTokens(vprovider, vconfig), CheckTemperature(vprovider, vconfig) >>

ContractField ==
    << "api_key", "api_key", "base_url", "base_url",
       "model", "timeout", "max_tokens", "temperature" >>

NotPassing(checks) == {i \in 1..8 : checks[i].kind # "pass"}
Earliest(failing) == CHOOSE i \in failing : \A j \in failing : i <= j

\* C1 as stated: the checks run in the order (1)..(8) and the call stops at
\* the first failing one, so the returned field is the field of the earliest
\* failing check, and valid=true is returned only when all eight pass.
C1_FieldOfEarliestFailingCheck ==
    Validated =>
        LET checks == ContractChecks
            failing == NotPassing(checks)
        IN  /\ vout.kind = "return"
            /\ vout.result.valid <=> (failing = {})
            /\ failing # {} => vout.result.field = ContractField[Earliest(failing)]

\* C1 amended: the checks run in the order (1)..(8) and the call stops at the
\* first one that does not pass; the result is the failure that check
\* reports (with its field) when it fails by returning, and field "unknown"
\* when it fails by raising (a text field that is no string, a numeric field
\* that is infinite, a config that is no object); valid=true is returned
\* only when all eight pass.
C1_Amended ==
    Validated =>
        LET checks == ContractChecks
            failing == NotPassing(checks)
            first == checks[Earliest(failing)]
        IN  /\ vout.kind = "return"
            /\ vout.result.valid <=> (failing = {})
            /\ failing # {} /\ first.kind = "return" =>
                  /\ vout.result = first.result
                  /\ vout.result.field = ContractField[Earliest(failing)]
            /\ failing # {} /\ first.kind = "raise" =>
                  vout.result.field = "unknown"

\* Several checks fail at once (key format, URL scheme, model, timeout) and
\* the result names the first of them.
C1_Witness ==
    /\ Validated
    /\ vout.result.field = "api_key"
    /\ vout.result.error.id = "deepseek_key_format"
    /\ LET failing == NotPassing(ContractChecks)
       IN  {2, 3, 5, 6} \subseteq failing /\ 1 \notin failing

\* C2: a configuration without api_key (key absent, value empty or only
\* whitespace) is rejected with field "api_key", whatever the other fields
\* hold.
MissingApiKey(config) ==
    /\ config.isdict
    /\ \/ config.api_key.ty = "absent"
       \/ /\ config.api_key.ty = "str"
          /\ \A i \in 1..Len(config.api_key.s) : config.api_key.s[i] \in Whitespace

C2_MissingApiKeyRejected ==
    Validated /\ MissingApiKey(vconfig) =>
        /\ vout.kind = "return"
        /\ ~vout.result.valid
        /\ vout.result.field = "api_key"

C2_Witness ==
    /\ Validated
    /\ vconfig.api_key = Str(<<" ", "\t">>)
    /\ vconfig.base_url = NoneV
    /\ vconfig.timeout = Inf
    /\ vout.result.field = "api_key"

\* C3: the validator never raises; a result with valid=false has both an
\* error and a field; a failure that comes from an exception inside the body
\* has field "unknown".
C3_NeverRaises ==
    Validated =>
        /\ vout.kind = "return"
        /\ vout.result.valid \in BOOLEAN
        /\ ~vout.result.valid =>
              /\ {"error", "field"} \subseteq vout.result.keys
              /\ vout.result.error # NoMsg
              /\ vout.result.field # ""
        /\ ValidateBody(vprovider, vconfig).kind = "raise" =>
              /\ ~vout.result.valid
              /\ vout.result.field = "unknown"
              /\ vout.result.error.id = "validate_exception"

C3_Witness ==
    /\ Validated
    /\ vconfig.api_key.ty = "str"
    /\ vconfig.base_url = NoneV
    /\ vout.kind = "return"
    /\ vout.result.field = "unknown"

\* C4: once the api_key, base_url and model checks pass, the timeout check
\* accepts exactly the values that convert to an integer in [1, 300]; 0 and
\* 301 are out-of-range failures of field "timeout", text that is no number
\* is a format failure of field "timeout" with another message, 30 passes.
TextChecksPass ==
    LET checks == ContractChecks IN \A i \in 1..5 : checks[i].kind = "pass"
TimeoutArg == Get(vconfig, "timeout", IntV(30))
TimeoutInRange ==
    LET t == PyInt(TimeoutArg) IN t.ok /\ t.n >= 1 /\ t.n <= 300
RestIsDefault == vconfig.max_tokens = Absent /\ vconfig.temperature = Absent

C4_TimeoutRange ==
    Validated /\ TextChecksPass =>
        /\ TimeoutInRange =>
              /\ vout.result.field # "timeout"
              /\ vout.result.valid \/ vout.result.field \in {"max_tokens", "temperature", "unknown"}
              /\ vout.result.field = "unknown" => vconfig.max_tokens = Inf
              /\ RestIsDefault => vout.result.valid
        /\ ~TimeoutInRange =>
              /\ ~vout.result.valid
              /\ vout.result.field \in {"timeout", "unknown"}
              /\ vout.result.field = "unknown" => TimeoutArg = Inf
        /\ TimeoutArg \in {IntV(0), IntV(301)} =>
              /\ vout.result.field = "timeout"
              /\ vout.result.error.id = "timeout_range"
        /\ TimeoutArg.ty = "str" /\ ~PyInt(TimeoutArg).ok =>
              /\ vout.result.field = "timeout"
              /\ vout.result.error.id = "timeout_format"
              /\ vout.result.error.id # "timeout_range"
        /\ TimeoutArg = IntV(30) /\ RestIsDefault => vout.result.valid

C4_Witness ==
    /\ Validated /\ TextChecksPass
    /\ vconfig.timeout = Str(<<"a", "b", "c">>)
    /\ vout.result.field = "timeout"
    /\ vout.result.error.id = "timeout_format"

\* C5: for deepseek with a deepseek base_url and model and default numeric
\* fields, the config is valid exactly when the trimmed api_key starts with
\* "sk-" and has at least 20 characters; any other key text is rejected with
\* field "api_key"; "sk-" followed by 20 filler characters passes.
DeepseekShaped ==
    /\ vprovider = "deepseek"
    /\ vconfig.isdict
    /\ vconfig.base_url = Str(HTTPS_SCHEME \o DEEPSEEK_HOST)
    /\ vconfig.model = Str(DEEPSEEK_CHAT)
    /\ vconfig.timeout = Absent /\ RestIsDefault

GoodDeepseekKey(v) ==
    /\ v.ty = "str"
    /\ StartsWith(Strip(v.s), SK_PREFIX)
    /\ Len(Strip(v.s)) >= 20

C5_DeepseekKey ==
    Validated /\ DeepseekShaped =>
        /\ vout.result.valid <=> GoodDeepseekKey(vconfig.api_key)
        /\ vconfig.api_key.ty \in {"str", "absent"} /\ ~GoodDeepseekKey(vconfig.api_key) =>
              vout.result.field = "api_key"
        /\ vconfig.api_key = Str(SK_PREFIX \o Rep("x", 20)) => vout.result.valid

C5_Witness ==
    /\ Validated /\ DeepseekShaped
    /\ vconfig.api_key = Str(SK_PREFIX \o Rep("y", 17))
    /\ vout.result.valid

(***************************************************************************)
(* Claims about the single-provider path and the fan-out (specification    *)
(* Spec).                                                                  *)
(***************************************************************************)
Done == pc = "done"
Single == entry \in {"async", "sync"}
Result(i) == calls[i].out.result

\* C6: for a provider without an entry in the configuration mapping,
\* simplify_task_async and simplify_task return success=false with the
\* error that names the missing configuration and without a field key, and
\* neither the validator nor an adapter is invoked for the request.
C6_UnconfiguredProvider ==
    Single /\ pc \in {"running", "done"} /\ providers[1] \notin DOMAIN configs =>
        /\ calls[1].validations = 0
        /\ calls[1].adapter_calls = 0
        /\ calls[1].st # "awaiting"
        /\ Done =>
              /\ ret.kind = "return"
              /\ ~ret.result.success
              /\ ret.result.error = Msg("no_config", providers[1], <<>>)
              /\ "error" \in ret.result.keys
              /\ "field" \notin ret.result.keys
              /\ ret.result.provider = providers[1]

C6_Witness ==
    /\ Done /\ entry = "sync"
    /\ configs = MixedConfigs
    /\ providers = <<"claude">>
    /\ ~ret.result.success
    /\ ret.result.error.id = "no_config"

\* C7: when the config of a configured provider fails validation,
\* simplify_task_async returns success=false with the error and the field
\* of the ValidationResult and the original task as simplified_task, and
\* the adapter is not invoked.
C7_ValidationFailureFolded ==
    Done =>
    \A i \in 1..Len(calls) :
        providers[i] \in DOMAIN configs =>
            LET validation == _validate_config(providers[i], configs[providers[i]])
            IN  ~validation.result.valid =>
                    /\ calls[i].st = "settled"
                    /\ calls[i].adapter_calls = 0
                    /\ calls[i].out.kind = "return"
                    /\ ~Result(i).success
                    /\ {"error", "field"} \subseteq Result(i).keys
                    /\ Result(i).error = validation.result.error
                    /\ Result(i).field = validation.result.field
                    /\ Result(i).simplified_task = task
                    /\ Single => ret = calls[i].out

C7_Witness ==
    /\ Done /\ entry = "async"
    /\ providers = <<"yuanbao">>
    /\ task = <<"g", "o">>
    /\ ret.result.field = "unknown"
    /\ ret.result.simplified_task = <<"g", "o">>

\* C8: when some provider of the fan-out succeeded, the returned result is
\* a successful one of minimal simplified_task length, and among the
\* successful results of that length the one whose provider comes first in
\* the argument list; a failed result is never returned.
C8_ShortestFirstWins ==
    Done /\ entry = "multi" /\ (\E i \in 1..Len(calls) : Result(i).success) =>
        /\ ret.kind = "return"
        /\ ret.result.success
        /\ \E w \in 1..Len(calls) :
              /\ Result(w).success
              /\ ret.result.provider = providers[w]
              /\ ret.result.simplified_task = Result(w).simplified_task
              /\ \A j \in 1..Len(calls) :
                    Result(j).success =>
                        /\ Len(Result(w).simplified_task) <= Len(Result(j).simplified_task)
                        /\ j < w => Len(Result(w).simplified_task)
                                        < Len(Result(j).simplified_task)

C8_Witness ==
    /\ Done /\ entry = "multi"
    /\ Len(providers) = 4
    /\ Result(1).success /\ Len(Result(1).simplified_task) = 5
    /\ Result(2).success /\ Len(Result(2).simplified_task) = 2
    /\ ~Result(3).success
    /\ Result(4).success /\ Len(Result(4).simplified_task) = 2
    /\ ret.result.provider = providers[2]

\* C9: every result of the fan-out, winner or total failure, carries
\* all_results with one CallResult per entry of the argument list, entry i
\* being the result of providers[i], successes and failures alike.
SameCallResult(a, b) ==
    /\ a.success = b.success
    /\ a.provider = b.provider
    /\ a.error = b.error
    /\ a.field = b.field
    /\ a.simplified_task = b.simplified_task
    /\ a.keys \ {"all_results"} = b.keys

C9_AllResultsComplete ==
    Done /\ entry = "multi" =>
        /\ ret.kind = "return"
        /\ "all_results" \in ret.result.keys
        /\ Len(ret.result.all_results) = Len(providers)
        /\ \A i \in 1..Len(providers) :
              /\ ret.result.all_results[i].provider = providers[i]
              /\ SameCallResult(ret.result.all_results[i], Result(i))

C9_Witness ==
    /\ Done /\ entry = "multi"
    /\ Len(providers) = 4
    /\ ret.result.success
    /\ \E i \in 1..4 : ~ret.result.all_results[i].success
    /\ \E i \in 1..4 : ret.result.all_results[i].success
                          /\ ret.result.all_results[i].provider # ret.result.provider

\* C10: when all N >= 1 providers fail, the result has success=false, the
\* original task as simplified_task, and an error that lists the first 3
\* providers in argument order (all N when N <= 3), each with its name and
\* its error, followed by the count N-3 of the rest exactly when N > 3.
C10_CombinedError ==
    Done /\ entry = "multi" /\ Len(providers) >= 1
         /\ (\A i \in 1..Len(calls) : ~Result(i).success) =>
        LET N == Len(providers)
            e == ret.result.error
        IN  /\ ~ret.result.success
            /\ ret.result.simplified_task = task
            /\ e.id = "all_failed"
            /\ Len(e.bullets) = (IF N <= 3 THEN N ELSE 3)
            /\ \A i \in 1..Len(e.bullets) :
                  /\ e.bullets[i].name = Upper(providers[i])
                  /\ e.bullets[i].error = Result(i).error
            /\ N <= 3 => e.more = <<>>
            /\ N > 3 => e.more = <<N - 3>>

C10_Witness ==
    /\ Done /\ entry = "multi"
    /\ Len(providers) = 4
    /\ ~ret.result.success
    /\ ret.result.error.more = <<1>>
    /\ ret.result.error.bullets[1].error.id = "api_call_failed"

\* C11: every CallResult with success=true, of a settled call and of the
\* entry point, has a non-empty simplified_task, whatever the vendor
\* answered.
C11_SuccessHasText ==
    /\ \A i \in 1..Len(calls) :
          calls[i].st = "settled" /\ Result(i).success =>
              Result(i).simplified_task # <<>>
    /\ Done /\ ret.kind = "return" /\ ret.result.success =>
          ret.result.simplified_task # <<>>

(***************************************************************************)
(* Claims about the manager and the entry points together (specification   *)
(* SpecManager).                                                           *)
(***************************************************************************)
Returned == Done /\ ret.kind = "return"

\* C12: every result with success=false that a caller gets, the result of
\* a call, the result of an entry point of the orchestrator or of the
\* manager, and every entry of all_results, has the task of the request as
\* simplified_task.
C12_FailureKeepsTask ==
    /\ \A i \in 1..Len(calls) :
          calls[i].st = "settled" /\ ~Result(i).success =>
              Result(i).simplified_task = task
    /\ Returned =>
          /\ ~ret.result.success => ret.result.simplified_task = task
          /\ \A i \in 1..Len(ret.result.all_results) :
                ~ret.result.all_results[i].success =>
                    ret.result.all_results[i].simplified_task = task

C12_Witness ==
    /\ Returned /\ entry = "manager_all"
    /\ ~ret.result.success
    /\ ret.result.error.id = "all_failed"
    /\ ret.result.simplified_task = task
    /\ task # <<>>
    /\ \E i \in 1..Len(calls) : Result(i).error.id = "api_call_failed"
    /\ \E i \in 1..Len(calls) : Result(i).field = "base_url"
    /\ \E i \in 1..Len(calls) : Result(i).error.id = "gemini_not_implemented"

\* C13: every call of simplify_task, simplify_task_multiple_providers,
\* the manager's simplify_task, get_available_providers and
\* get_provider_status returns a structured result; none raises, whatever
\* the provider name and the loaded entries are.
C13_NeverRaises ==
    /\ Done => ret.kind = "return"
    /\ pc = "answered" => mout.kind = "return"

\* Whether simplify_task_async gets as far as the adapter of p.
Dispatched(p) ==
    p \in DOMAIN configs /\ _validate_config(p, configs[p]).result.valid

NotImplemented(p) == Msg(p \o "_not_implemented", "", <<>>)

\* C14: the adapters of gemini, claude and glm return success=false with
\* the not-implemented message of the provider and the task as
\* simplified_task for every task and every config, valid or not; a call
\* of simplify_task_async for such a provider never waits for a vendor and
\* returns that result whenever it gets as far as the adapter.
C14_StubNotImplemented ==
    /\ entry = "adapter" /\ Done =>
          /\ ret.kind = "return"
          /\ ~ret.result.success
          /\ ret.result.provider = vprovider
          /\ ret.result.error = NotImplemented(vprovider)
          /\ ret.result.simplified_task = task
          /\ ret.result.keys = {"success", "provider", "error", "simplified_task"}
    /\ entry = "async" =>
          \A i \in 1..Len(calls) :
              calls[i].st # "created" =>
                  LET dispatched == Dispatched(vprovider)
                  IN  /\ calls[i].st = "settled"
                      /\ ~Result(i).success
                      /\ Result(i).simplified_task = task
                      /\ dispatched <=> calls[i].adapter_calls = 1
                      /\ dispatched <=> Result(i).error = NotImplemented(vprovider)

C14_Witness ==
    /\ entry = "adapter" /\ Done
    /\ vprovider = "glm"
    /\ vconfig.isdict /\ vconfig.api_key = Str(<<>>) /\ vconfig.timeout = IntV(0)
    /\ ~ret.result.success
    /\ ret.result.error = NotImplemented("glm")
    /\ ret.result.simplified_task = task

\* Present in the mapping with a non-empty api_key.
HasKey(p) ==
    /\ p \in DOMAIN configs
    /\ configs[p].isdict
    /\ configs[p].api_key.ty = "str"
    /\ configs[p].api_key.s # <<>>

\* C15: get_provider_status returns a mapping whose keys are the nine
\* provider values and whose values are booleans, true exactly for the
\* providers present in the mapping with a non-empty api_key.
C15_StatusBooleans ==
    pc = "answered" /\ mout.op = "get_provider_status" /\ mout.kind = "return" =>
        /\ DOMAIN mout.status = AIProvider
        /\ \A p \in AIProvider :
              /\ mout.status[p].ty = "bool"
              /\ mout.status[p] = BoolV(TRUE) <=> HasKey(p)

\* C16: the manager's simplify_task without a provider, on a mapping whose
\* entries are objects: with no provider that has a non-empty api_key it
\* returns the no-provider failure at once, no call being created;
\* otherwise the fan-out runs on exactly the providers that have one, in
\* definition order, and its result is returned.
C16_NoProviderArgument ==
    entry = "manager_all" /\ (\A p \in DOMAIN configs : configs[p].isdict) =>
        LET candidates == SelectSeq(ProviderOrder, HasKey)
        IN  IF candidates = <<>>
            THEN /\ Done
                 /\ calls = <<>>
                 /\ ret.kind = "return"
                 /\ ~ret.result.success
                 /\ ret.result.error = Msg("no_provider", "", <<>>)
                 /\ ret.result.simplified_task = task
                 /\ ret.result.keys = {"success", "error", "simplified_task"}
            ELSE /\ pc \in {"running", "done"}
                 /\ providers = candidates
                 /\ Len(calls) = Len(candidates)
                 /\ Done =>
                       /\ AllSettled
                       /\ ret.kind = "return"
                       /\ ret.result =
                              simplify_task_multiple_providers(task, candidates, Outcomes)
                       /\ Len(ret.result.all_results) = Len(candidates)

C16_Witness ==
    /\ Returned /\ entry = "manager_all"
    /\ store = MixedFile
    /\ "wenxin" \in {providers[i] : i \in 1..Len(providers)}
    /\ "claude" \notin {providers[i] : i \in 1..Len(providers)}
    /\ ret.result.success
    /\ ret.result.provider = "tongyi"
    /\ \E i \in 1..Len(calls) : Result(i).field = "api_key"

\* C17: the keys of the configuration mapping are provider values at all
\* times; load_config keeps exactly the entries of a JSON object whose
\* names are provider values, as they are in the file, and gives the empty
\* mapping for a file that is absent, unreadable or no object.
C17_KeysAreProviders ==
    /\ DOMAIN configs \subseteq AIProvider
    /\ store.kind = "object" =>
          /\ DOMAIN configs = (DOMAIN store.data) \cap AIProvider
          /\ \A p \in DOMAIN configs : configs[p] = store.data[p]
    /\ store.kind # "object" => DOMAIN configs = {}

C17_Witness ==
    /\ store = MixedFile
    /\ UnknownNames \subseteq DOMAIN store.data
    /\ DOMAIN configs = AIProvider \ {"claude"}
    /\ configs["glm"] = store.data["glm"]
    /\ pc = "done" /\ entry = "manager_one" /\ providers = <<"claude">>

(***************************************************************************)
(* Claims about the concurrency of the fan-out (specification Spec).       *)
(***************************************************************************)
Multi == entry = "multi"

\* C18: while a call of the fan-out is still pending, whatever the other
\* calls have returned, simplify_task_multiple_providers has returned
\* nothing; when it has returned, every call has settled.
C18_WaitsForAll ==
    Multi =>
        /\ (\E i \in 1..Len(calls) : calls[i].st # "settled") =>
              pc = "running" /\ ret = NoOutcome
        /\ Done =>
              /\ \A i \in 1..Len(calls) : calls[i].st = "settled"
              /\ Len(ret.result.all_results) = Len(providers)

C18_Witness ==
    /\ Multi /\ pc = "running" /\ ret = NoOutcome
    /\ Len(calls) = 3
    /\ calls[1].st = "awaiting"
    /\ calls[2].st = "settled" /\ Result(2).success
    /\ calls[3].st = "settled" /\ Result(3).error.id = "api_call_failed"

\* What call i can become by a step of its own: the coroutine run to its
\* first await or return, or resumed with an answer of its vendor.
OwnSteps(i) ==
    IF calls[i].st = "created"
    THEN {simplify_task_async(task, providers[i], configs)}
    ELSE {simplify_task_async_resume(calls[i], task, providers[i], configs, response)
             : response \in FanoutResponses}

\* The results the fan-out collects when call i has raised instead.
CollectedWithRaise(i) ==
    CollectResults(task, providers,
                   [Outcomes EXCEPT ![i] = Raised("RuntimeError")])

\* C19: in the fan-out a step changes one call only, a call that has
\* settled is never changed by what happens to another, the new state of a
\* call depends on its own provider, config and vendor answer alone, and a
\* call that waits can still be answered whatever the others did; every
\* call settles with a CallResult of its provider, and an exception in
\* place of a result is collected as the failure of that provider with the
\* task as simplified_task, the other entries unchanged.
C19_FailureIsolation ==
    [][ Multi /\ pc = "running" =>
          /\ \A i \in 1..Len(calls) :
                calls'[i] # calls[i] =>
                    /\ calls[i].st # "settled"
                    /\ calls'[i] \in OwnSteps(i)
                    /\ \A j \in 1..Len(calls) : j # i => calls'[j] = calls[j]
                    /\ calls'[i].st = "settled" =>
                          /\ calls'[i].out.kind = "return"
                          /\ calls'[i].out.result.provider = providers[i]
          /\ (\A i \in 1..Len(calls) : calls[i].st # "created") =>
                \A i \in 1..Len(calls) :
                    calls[i].st = "awaiting" =>
                        ENABLED VendorResponds(i, HttpErrorResponse)
          /\ pc' = "done" =>
                \A i \in 1..Len(calls) :
                    LET collected == CollectedWithRaise(i)
                    IN  /\ collected[i] =
                               Failure(providers[i],
                                       Msg("exception_text", "", <<"RuntimeError">>),
                                       task)
                        /\ \A j \in 1..Len(calls) :
                              j # i => collected[j] = Result(j)
      ]_vars

C19_Witness ==
    /\ Multi /\ Done
    /\ Len(calls) = 3
    /\ Result(1).error.id = "api_call_failed"
    /\ Result(2).success
    /\ Result(3).success
    /\ ret.result.success

\* C20: within one invocation, single or fan-out, the config of each
\* requested provider is validated at most once and its adapter is invoked
\* at most once; a call that waits for its vendor settles with the first
\* answer, success or failure, and a call that has settled is not run
\* again.
C20_NoRetries ==
    [][ pc = "running" =>
          \A i \in 1..Len(calls) :
              /\ calls'[i].validations <= 1
              /\ calls'[i].adapter_calls <= 1
              /\ calls'[i].adapter_calls >= calls[i].adapter_calls
              /\ calls[i].st = "settled" => calls'[i] = calls[i]
              /\ calls[i].st = "awaiting" /\ calls'[i] # calls[i] =>
                    /\ calls'[i].st = "settled"
                    /\ calls'[i].adapter_calls = calls[i].adapter_calls
      ]_vars

C20_Witness ==
    /\ Done /\ entry = "sync"
    /\ providers = <<"openai">>
    /\ calls[1].adapter_calls = 1
    /\ calls[1].validations = 1
    /\ ~ret.result.success
    /\ ret.result.error.id = "request_timeout"

(***************************************************************************)
(* Claims about the event loops of the synchronous entry points            *)
(* (specification SpecSync).                                               *)
(***************************************************************************)
\* C21: when a synchronous entry point has returned, and between the
\* calls, every event loop the entry points have created is closed,
\* whether running the loop succeeded or raised.
C21_LoopsClosed ==
    pc \in {"idle", "done"} => open_loops = 0

(***************************************************************************)
(* Claims about the order of completion (specification SpecOrder).         *)
(***************************************************************************)
\* The position of the winner, from the argument list and the results of
\* the calls alone: the first position among the successful results of the
\* least length.
WinnerPosition ==
    CHOOSE w \in 1..Len(calls) :
        /\ Result(w).success
        /\ \A j \in 1..Len(calls) :
              Result(j).success =>
                  /\ Len(Result(w).simplified_task) <= Len(Result(j).simplified_task)
                  /\ j < w => Len(Result(w).simplified_task)
                                  < Len(Result(j).simplified_task)

\* C22: what the fan-out returns is fixed by the argument list and the
\* result of each provider, whatever the order in which the calls
\* completed: every call completed once, all_results has the result of
\* providers[i] at position i, the winner is the one given by the list
\* order, and the combined error lists the providers in list order.
C22_OrderIndependent ==
    Done /\ Multi /\ completed.on =>
        LET N == Len(providers)
            r == ret.result
            results == [i \in 1..N |-> Result(i)]
        IN  /\ Len(completed.order) = N
            /\ \A i \in 1..N : \E k \in 1..N : completed.order[k] = i
            /\ ret.kind = "return"
            /\ Len(r.all_results) = N
            /\ \A i \in 1..N :
                  /\ r.all_results[i].provider = providers[i]
                  /\ SameCallResult(r.all_results[i], results[i])
            /\ r.success = (\E i \in 1..N : results[i].success)
            /\ r.success =>
                  /\ r.provider = providers[WinnerPosition]
                  /\ SameCallResult(r, results[WinnerPosition])
            /\ ~r.success =>
                  /\ r.simplified_task = task
                  /\ r.error.id = "all_failed"
                  /\ Len(r.error.bullets) = (IF N <= 3 THEN N ELSE 3)
                  /\ \A i \in 1..Len(r.error.bullets) :
                        /\ r.error.bullets[i].name = Upper(providers[i])
                        /\ r.error.bullets[i].error = results[i].error
                  /\ r.error.more = (IF N > 3 THEN <<N - 3>> ELSE <<>>)

\* The last call of the list answered first and the first one last; two
\* results of the same length, and the first of the list wins.
C22_Witness ==
    /\ Done /\ Multi /\ completed.on
    /\ providers = <<"deepseek", "openai", "tongyi">>
    /\ completed.order = <<3, 2, 1>>
    /\ Result(1).success /\ Result(3).success
    /\ Len(Result(1).simplified_task) = Len(Result(3).simplified_task)
    /\ ~Result(2).success
    /\ ret.result.provider = "deepseek"
    /\ ret.result.all_results[3].provider = "tongyi"

====
